---- MODULE Spec2Model ----
(***************************************************************************)
(* Model of the SPMC frame ring of src/src/atomic_buf.rs and of the video  *)
(* pipeline of src/src/video.rs that runs on top of it.                    *)
(*                                                                         *)
(* Every atomic load and store of the source is one step.  The store of a  *)
(* value into a slot (`*next_item = value.into()`) is two partial stores   *)
(* (head, tail), and the inspection of a slot through a handle is two      *)
(* partial loads, so that a torn read or write is a reachable state if the *)
(* ring logic allows it.  Steps interleave sequentially consistently.      *)
(***************************************************************************)
EXTENDS Integers, Naturals, Sequences, FiniteSets, TLC

\* ---------------------------------------------------------------- bounds
\* `const N: usize` of AtomicBuffer (the pipeline uses FRAME_BUFFER_SIZE).
N == 3
\* `const READERS: usize` of AtomicBuffer (the pipeline uses 5).
READERS == 2
\* Number of successful writes after which the writer stops offering values.
MaxWrites == 4

Readers == 1..READERS
Slots == 0..(N - 1)

\* Contents of a slot after T::default(): no payload was ever stored.
Default == -1
DefaultSlot == [head |-> Default, tail |-> Default]

\* `as u32` cast of a usize: the low 32 bits, as two 16-bit halves.
AsU32(x) == (x % 65536) + 65536 * ((x \div 65536) % 65536)

\* `write_pos.wrapping_add(1) % N` of try_write and write_spin.  Every
\* position is below N, far from usize::MAX, so the addition never wraps.
NextWritePosSkip(p) == (p + 2) % N
NextWritePos(p) == (p + 1) % N

\* `ptr_val.wrapping_add(1) % N` of Drop for AtomicBufferReadHandle.
NextReadPosSkip(p) == (p + 2) % N
NextReadPos(p) == (p + 1) % N

\* The fullness test of write_inner for one read cursor.
OverlapsNever(read_ptr, next_pos) == FALSE
OverlapsCurrent(read_ptr, next_pos) == NextWritePos(read_ptr) = next_pos
Overlaps(read_ptr, next_pos) == read_ptr = next_pos

\* The emptiness test of try_read / read_spin.
HasDataAlways(read_pos_v, write_ptr_v) == TRUE
HasData(read_pos_v, write_ptr_v) == read_pos_v # write_ptr_v

VARIABLES
    \* AtomicBuffer
    data,           \* data: Box<[UnsafeCell<T>; N]>
    write_ptr,      \* write_ptr: AtomicUsize
    read_ptrs,      \* read_ptrs: [AtomicUsize; READERS]
    wait_for_step,  \* wait_for_step: Futex<Private> (its value)
    \* writer thread
    wpc,            \* position of the writer
    wop,            \* "try" (try_write), "spin" (write_spin) or "none"
    write_pos,      \* local of try_write / write_spin
    next_write_pos, \* local of try_write / write_spin
    scan,           \* index of the read cursor `any` examines next
    wval,           \* the value being written
    wres,           \* what the last try_write returned
    \* reader threads
    rpc,            \* position of each reader
    read_pos,       \* local of try_read / read_spin
    write_ptr_value,\* local of read_spin
    hval,           \* bytes copied out through the live handle
    rres,           \* "empty" after a try_read that returned None
    \* history
    written,        \* number of successful writes
    released,       \* number of handles dropped, per reader
    leaked,         \* slot and contents of the last handle when it was forgotten
    \* camera thread of video_routine
    cpc,            \* position of the camera thread
    resolution,     \* `resolution`: None, or the last descriptor received
    resolution_rx,  \* camera_resolution_select_rx: the bounded(1) channel
    flush_qr,       \* flush_qr: AtomicBool
    nres,           \* number of descriptors the GUI has sent
    s4,             \* per detector: the last flush found it at its loop top
                    \* with QueuedBefore frames queued and none decoded
    observed,       \* the last store of true was seen by a later load
    answered,       \* the last store of true was followed by a store of false
    \* analysis threads of video_routine and the QR channel
    scene,          \* the texts of the QR codes in front of the camera
    dpc,            \* position of each analysis thread
    decoded_info,   \* decoded_info of each analysis thread
    todo,           \* texts the `for text in &decoded_info` loop has yet to visit
    qr_reads,       \* contents of the qr_reads channel
    seen,           \* per detector: times it loaded flush_qr as true
    mark,           \* per detector: frames published when it last chose to drain
    ndec,           \* per detector: frames it passed to the decoder
    lastdec,        \* per detector: payload of the last such frame
    nsent,          \* per detector: strings it sent on qr_reads
    \* stream writer thread of video_routine
    spc,            \* position of the stream writer thread
    clients,        \* connections accepted so far
    got,            \* what the current client has received, up to its first frame
    packet,         \* `packet` of the stream writer thread
    frame_header_len, \* `frame_header_len`
    cur_frame_len,  \* `cur_frame_len`
    frame_len       \* length in bytes of each frame the camera delivers

ringVars == <<data, write_ptr, read_ptrs, wait_for_step>>
writerVars == <<wpc, wop, write_pos, next_write_pos, scan, wval, wres>>
readerVars == <<rpc, read_pos, write_ptr_value, hval, rres>>
histVars == <<written, released, leaked>>
camVars == <<cpc, resolution, resolution_rx, flush_qr, nres>>
camHist == <<s4, observed, answered, frame_len>>
detVars == <<scene, dpc, decoded_info, todo, qr_reads>>
detHist == <<seen, mark, ndec, lastdec, nsent>>
pktVars == <<packet, frame_header_len, cur_frame_len>>
strVars == <<spc, clients, got, pktVars>>
pipeVars == <<camVars, camHist, detVars, detHist, strVars>>
vars == <<ringVars, writerVars, readerVars, histVars, pipeVars>>

\* `let mut resolution = None` of the camera thread.
NoResolution == 0

NoPos == -1
NoVal == [head |-> -2, tail |-> -2]
NoLeak == [slot |-> NoPos, val |-> NoVal]

\* AtomicBuffer::new followed by split: all cursors and the futex are zero,
\* every slot holds T::default(), every thread is about to start.
InitOf(sc, fl) ==
    /\ data = [p \in Slots |-> DefaultSlot]
    /\ write_ptr = 0
    /\ read_ptrs = [r \in Readers |-> 0]
    /\ wait_for_step = 0
    /\ wpc = "idle" /\ wop = "none"
    /\ write_pos = NoPos /\ next_write_pos = NoPos
    /\ scan = 0 /\ wval = Default /\ wres = "none"
    /\ rpc = [r \in Readers |-> "idle"]
    /\ read_pos = [r \in Readers |-> NoPos]
    /\ write_ptr_value = [r \in Readers |-> NoPos]
    /\ hval = [r \in Readers |-> NoVal]
    /\ rres = [r \in Readers |-> "none"]
    /\ written = 0
    /\ released = [r \in Readers |-> 0]
    /\ leaked = [r \in Readers |-> NoLeak]
    /\ cpc = "open"
    /\ resolution = NoResolution
    /\ resolution_rx = <<>>
    /\ flush_qr = FALSE
    /\ nres = 0
    /\ s4 = [r \in Readers |-> FALSE]
    /\ observed = TRUE
    /\ answered = TRUE
    /\ scene = sc
    /\ dpc = [r \in Readers |-> "top"]
    /\ decoded_info = [r \in Readers |-> <<>>]
    /\ todo = [r \in Readers |-> <<>>]
    /\ qr_reads = <<>>
    /\ seen = [r \in Readers |-> 0]
    /\ mark = [r \in Readers |-> NoPos]
    /\ ndec = [r \in Readers |-> 0]
    /\ lastdec = [r \in Readers |-> NoPos]
    /\ nsent = [r \in Readers |-> 0]
    /\ spc = "bind"
    /\ clients = 0
    /\ got = <<>>
    /\ packet = <<>>
    /\ frame_header_len = 0
    /\ cur_frame_len = 0
    /\ frame_len = fl

\* No QR code is in front of the camera.
NoCode == <<>>

\* The frames the camera delivers, by their number.
Frames == 0..(MaxWrites - 1)

\* Every frame is one byte long.
UnitFrames == [k \in Frames |-> 1]

InitWith(sc) == InitOf(sc, UnitFrames)

Init == InitWith(NoCode)

\* ---------------------------------------------------------------- writer

\* The writer returns to its caller with result res.
WriterReturn(res) ==
    /\ wpc' = "idle" /\ wop' = "none"
    /\ write_pos' = NoPos /\ next_write_pos' = NoPos
    /\ scan' = 0 /\ wval' = Default /\ wres' = res

\* try_write: load write_ptr, compute the next position, enter write_inner.
\* The k-th value offered after k successful writes is the payload k.
TryWrite ==
    /\ wpc = "idle" /\ written < MaxWrites
    /\ wop' = "try"
    /\ write_pos' = write_ptr
    /\ next_write_pos' = NextWritePos(write_ptr)
    /\ wval' = written
    /\ scan' = 1 /\ wpc' = "scan" /\ wres' = "none"
    /\ UNCHANGED <<ringVars, readerVars, histVars>>
    /\ UNCHANGED pipeVars

\* write_spin: the same loads, then a loop around write_inner.
WriteSpin ==
    /\ wpc = "idle" /\ written < MaxWrites
    /\ wop' = "spin"
    /\ write_pos' = write_ptr
    /\ next_write_pos' = NextWritePos(write_ptr)
    /\ wval' = written
    /\ scan' = 1 /\ wpc' = "scan" /\ wres' = "none"
    /\ UNCHANGED <<ringVars, readerVars, histVars>>
    /\ UNCHANGED pipeVars

\* `read_ptrs.iter().any(..)` has examined every cursor once it has examined
\* the i-th of them.
ScanDoneFirst(i) == TRUE
ScanDone(i) == i >= READERS

\* write_inner, `any`: one relaxed load of a read cursor that does not overlap.
ScanPass ==
    /\ wpc = "scan"
    /\ ~Overlaps(read_ptrs[scan], next_write_pos)
    /\ IF ScanDone(scan)
         THEN scan' = 0 /\ wpc' = "store_head"
         ELSE scan' = scan + 1 /\ wpc' = wpc
    /\ UNCHANGED <<wop, write_pos, next_write_pos, wval, wres>>
    /\ UNCHANGED <<ringVars, readerVars, histVars>>
    /\ UNCHANGED pipeVars

\* write_inner, `any`: a read cursor equals the next write position, the ring
\* is full.  try_write returns false; write_spin goes on to yield.
ScanFull ==
    /\ wpc = "scan"
    /\ Overlaps(read_ptrs[scan], next_write_pos)
    /\ IF wop = "try"
         THEN WriterReturn("false")
         ELSE /\ wpc' = "yield" /\ scan' = 0
              /\ UNCHANGED <<wop, write_pos, next_write_pos, wval, wres>>
    /\ UNCHANGED <<ringVars, readerVars, histVars>>
    /\ UNCHANGED pipeVars

\* write_spin: spin_loop(); yield_now(); then write_inner again with the
\* positions loaded once before the loop.
SpinYield ==
    /\ wpc = "yield"
    /\ wpc' = "scan" /\ scan' = 1
    /\ UNCHANGED <<wop, write_pos, next_write_pos, wval, wres>>
    /\ UNCHANGED <<ringVars, readerVars, histVars>>
    /\ UNCHANGED pipeVars

\* write_inner: first half of `*next_item = value.into()`.
StoreHead ==
    /\ wpc = "store_head"
    /\ data' = [data EXCEPT ![write_pos].head = wval]
    /\ wpc' = "store_tail"
    /\ UNCHANGED <<write_ptr, read_ptrs, wait_for_step>>
    /\ UNCHANGED <<wop, write_pos, next_write_pos, scan, wval, wres>>
    /\ UNCHANGED <<readerVars, histVars>>
    /\ UNCHANGED pipeVars

\* write_inner: second half of `*next_item = value.into()`.
StoreTail ==
    /\ wpc = "store_tail"
    /\ data' = [data EXCEPT ![write_pos].tail = wval]
    /\ wpc' = "publish"
    /\ UNCHANGED <<write_ptr, read_ptrs, wait_for_step>>
    /\ UNCHANGED <<wop, write_pos, next_write_pos, scan, wval, wres>>
    /\ UNCHANGED <<readerVars, histVars>>
    /\ UNCHANGED pipeVars

\* write_inner: write_ptr.store(next_write_pos, Release).
Publish ==
    /\ wpc = "publish"
    /\ write_ptr' = next_write_pos
    /\ written' = written + 1
    /\ wpc' = "futex_store"
    /\ UNCHANGED <<data, read_ptrs, wait_for_step>>
    /\ UNCHANGED <<wop, write_pos, next_write_pos, scan, wval, wres>>
    /\ UNCHANGED <<readerVars, released, leaked>>
    /\ UNCHANGED pipeVars

\* write_inner: wait_for_step.value.store(next_write_pos as u32, Relaxed).
FutexStore ==
    /\ wpc = "futex_store"
    /\ wait_for_step' = AsU32(next_write_pos)
    /\ wpc' = "futex_wake"
    /\ UNCHANGED <<data, write_ptr, read_ptrs>>
    /\ UNCHANGED <<wop, write_pos, next_write_pos, scan, wval, wres>>
    /\ UNCHANGED <<readerVars, histVars>>
    /\ UNCHANGED pipeVars

\* Futex wake of one thread: a waiter returns from wait, the others are
\* not affected.
WokenNobody(pc) == pc
Woken(pc) == IF pc = "asleep" THEN "rs_load" ELSE pc

\* write_inner: wait_for_step.wake(i32::MAX) wakes every waiting reader, and
\* write_inner returns true.
FutexWake ==
    /\ wpc = "futex_wake"
    /\ rpc' = [r \in Readers |-> Woken(rpc[r])]
    /\ WriterReturn("true")
    /\ UNCHANGED <<read_pos, write_ptr_value, hval, rres>>
    /\ UNCHANGED <<ringVars, histVars>>
    /\ UNCHANGED pipeVars

\* ---------------------------------------------------------------- readers

\* try_read: relaxed load of the reader's own cursor (which only this reader
\* ever stores), acquire load of write_ptr and the comparison.  Some(handle)
\* when the positions differ, None otherwise.
TryRead(r) ==
    /\ rpc[r] = "idle"
    /\ IF HasData(read_ptrs[r], write_ptr)
         THEN /\ rpc' = [rpc EXCEPT ![r] = "held"]
              /\ rres' = [rres EXCEPT ![r] = "none"]
              /\ read_pos' = [read_pos EXCEPT ![r] = read_ptrs[r]]
         ELSE /\ rpc' = [rpc EXCEPT ![r] = "idle"]
              /\ rres' = [rres EXCEPT ![r] = "empty"]
              /\ read_pos' = [read_pos EXCEPT ![r] = NoPos]
    /\ UNCHANGED <<write_ptr_value, hval>>
    /\ UNCHANGED <<ringVars, writerVars, histVars>>
    /\ UNCHANGED pipeVars

\* read_spin: relaxed load of the reader's own cursor.
ReadSpin(r) ==
    /\ rpc[r] = "idle"
    /\ read_pos' = [read_pos EXCEPT ![r] = read_ptrs[r]]
    /\ rpc' = [rpc EXCEPT ![r] = "rs_load"]
    /\ rres' = [rres EXCEPT ![r] = "none"]
    /\ UNCHANGED <<write_ptr_value, hval>>
    /\ UNCHANGED <<ringVars, writerVars, histVars>>
    /\ UNCHANGED pipeVars

\* read_spin: relaxed load of write_ptr in the wait loop; break when it
\* differs from the cursor.
SpinLoad(r) ==
    /\ rpc[r] = "rs_load"
    /\ IF HasData(read_pos[r], write_ptr)
         THEN /\ rpc' = [rpc EXCEPT ![r] = "rs_assert"]
              /\ write_ptr_value' = [write_ptr_value EXCEPT ![r] = NoPos]
         ELSE /\ rpc' = [rpc EXCEPT ![r] = "rs_wait"]
              /\ write_ptr_value' = [write_ptr_value EXCEPT ![r] = write_ptr]
    /\ UNCHANGED <<read_pos, hval, rres>>
    /\ UNCHANGED <<ringVars, writerVars, histVars>>
    /\ UNCHANGED pipeVars

\* read_spin: wait_for_step.wait(write_ptr_value as u32).  The futex sleeps
\* only if its value still equals the expected one, otherwise it returns at
\* once and the loop re-checks.
FutexWaitBlind(r) ==
    /\ rpc[r] = "rs_wait"
    /\ rpc' = [rpc EXCEPT ![r] = "asleep"]
    /\ write_ptr_value' = [write_ptr_value EXCEPT ![r] = NoPos]
    /\ UNCHANGED <<read_pos, hval, rres>>
    /\ UNCHANGED <<ringVars, writerVars, histVars>>
    /\ UNCHANGED pipeVars
FutexWait(r) ==
    /\ rpc[r] = "rs_wait"
    /\ IF wait_for_step = AsU32(write_ptr_value[r])
         THEN rpc' = [rpc EXCEPT ![r] = "asleep"]
         ELSE rpc' = [rpc EXCEPT ![r] = "rs_load"]
    /\ write_ptr_value' = [write_ptr_value EXCEPT ![r] = NoPos]
    /\ UNCHANGED <<read_pos, hval, rres>>
    /\ UNCHANGED <<ringVars, writerVars, histVars>>
    /\ UNCHANGED pipeVars

\* read_spin off Linux: hint::spin_loop(); thread::yield_now(); and the loop
\* re-checks.
PauseYield(r) ==
    /\ rpc[r] = "rs_wait"
    /\ rpc' = [rpc EXCEPT ![r] = "rs_load"]
    /\ write_ptr_value' = [write_ptr_value EXCEPT ![r] = NoPos]
    /\ UNCHANGED <<read_pos, hval, rres>>
    /\ UNCHANGED <<ringVars, writerVars, histVars>>
    /\ UNCHANGED pipeVars

\* read_spin: a futex wait may return spuriously.
SpuriousWake(r) ==
    /\ rpc[r] = "asleep"
    /\ rpc' = [rpc EXCEPT ![r] = "rs_load"]
    /\ UNCHANGED <<read_pos, write_ptr_value, hval, rres>>
    /\ UNCHANGED <<ringVars, writerVars, histVars>>
    /\ UNCHANGED pipeVars

\* read_spin: assert_ne!(read_pos, write_ptr.load(Acquire)), then the handle.
SpinAssert(r) ==
    /\ rpc[r] = "rs_assert"
    /\ IF HasData(read_pos[r], write_ptr)
         THEN rpc' = [rpc EXCEPT ![r] = "held"]
         ELSE rpc' = [rpc EXCEPT ![r] = "panicked"]
    /\ UNCHANGED <<read_pos, write_ptr_value, hval, rres>>
    /\ UNCHANGED <<ringVars, writerVars, histVars>>
    /\ UNCHANGED pipeVars

\* The holder of a handle reads the first half of the slot through it.
ObserveHead(r) ==
    /\ rpc[r] = "held"
    /\ hval' = [hval EXCEPT ![r].head = data[read_pos[r]].head]
    /\ rpc' = [rpc EXCEPT ![r] = "held_tail"]
    /\ UNCHANGED <<read_pos, write_ptr_value, rres>>
    /\ UNCHANGED <<ringVars, writerVars, histVars>>
    /\ UNCHANGED pipeVars

\* The holder of a handle reads the second half of the slot through it.
ObserveTail(r) ==
    /\ rpc[r] = "held_tail"
    /\ hval' = [hval EXCEPT ![r].tail = data[read_pos[r]].tail]
    /\ rpc' = [rpc EXCEPT ![r] = "seen"]
    /\ UNCHANGED <<read_pos, write_ptr_value, rres>>
    /\ UNCHANGED <<ringVars, writerVars, histVars>>
    /\ UNCHANGED pipeVars

\* Drop for AtomicBufferReadHandle: relaxed load of the reader's own cursor
\* and relaxed store of the advanced cursor.  A handle may be dropped without
\* having been inspected.
DropHandle(r) ==
    /\ rpc[r] \in {"held", "seen"}
    /\ read_ptrs' = [read_ptrs EXCEPT ![r] = NextReadPos(read_ptrs[r])]
    /\ released' = [released EXCEPT ![r] = @ + 1]
    /\ leaked' = [leaked EXCEPT ![r] = NoLeak]
    /\ rpc' = [rpc EXCEPT ![r] = "idle"]
    /\ read_pos' = [read_pos EXCEPT ![r] = NoPos]
    /\ hval' = [hval EXCEPT ![r] = NoVal]
    /\ rres' = [rres EXCEPT ![r] = "none"]
    /\ UNCHANGED write_ptr_value
    /\ UNCHANGED <<data, write_ptr, wait_for_step, writerVars, written>>
    /\ UNCHANGED pipeVars

\* mem::forget of a handle its holder has inspected: Drop does not run, the
\* cursor stays where it is.
Forget(r) ==
    /\ rpc[r] = "seen"
    /\ leaked' = [leaked EXCEPT ![r] = [slot |-> read_pos[r], val |-> hval[r]]]
    /\ rpc' = [rpc EXCEPT ![r] = "idle"]
    /\ read_pos' = [read_pos EXCEPT ![r] = NoPos]
    /\ hval' = [hval EXCEPT ![r] = NoVal]
    /\ rres' = [rres EXCEPT ![r] = "none"]
    /\ UNCHANGED write_ptr_value
    /\ UNCHANGED <<ringVars, writerVars, written, released>>
    /\ UNCHANGED pipeVars

\* The steps of write_inner after a scan that found no overlap.
WriteCommit == StoreHead \/ StoreTail \/ Publish \/ FutexStore \/ FutexWake

WriterStep ==
    \/ TryWrite \/ WriteSpin \/ ScanPass \/ ScanFull \/ SpinYield
    \/ WriteCommit

ReaderStep(r) ==
    \/ TryRead(r)
    \/ ReadSpin(r) \/ SpinLoad(r) \/ FutexWait(r) \/ SpuriousWake(r)
    \/ SpinAssert(r)
    \/ ObserveHead(r) \/ ObserveTail(r)
    \/ DropHandle(r)

\* The ring under callers that drop every handle, as the pipeline does.
Next == WriterStep \/ \E r \in Readers : ReaderStep(r)

Spec == Init /\ [][Next]_vars

\* The ring under a writer that only offers values with try_write, as the
\* camera thread does, and readers that may also forget a handle.
NextLeak ==
    \/ TryWrite \/ ScanPass \/ ScanFull \/ WriteCommit
    \/ \E r \in Readers : ReaderStep(r) \/ Forget(r)

LeakSpec == Init /\ [][NextLeak]_vars

\* The fan-out scenario: the writer pushes MaxWrites values, retrying
\* try_write whenever it reports full, and every reader keeps taking the next
\* handle with read_spin, as the streamer and the detectors do, and dropping
\* it.  Every thread is an OS thread that keeps being scheduled; a spurious
\* futex wake is possible but never guaranteed.
FanWriter == TryWrite \/ ScanPass \/ ScanFull \/ WriteCommit

FanReader(r) ==
    \/ ReadSpin(r) \/ SpinLoad(r) \/ FutexWait(r) \/ SpinAssert(r)
    \/ ObserveHead(r) \/ ObserveTail(r) \/ DropHandle(r)

NextFan == FanWriter \/ \E r \in Readers : FanReader(r) \/ SpuriousWake(r)

FanSpec ==
    /\ Init /\ [][NextFan]_vars
    /\ WF_vars(FanWriter)
    /\ \A r \in Readers : WF_vars(FanReader(r))

\* ------------------------------------------------------------ properties

\* The k-th successful write carries the payload k in both halves.
Payload(k) == [head |-> k, tail |-> k]

\* Reader r holds a live handle.
Holding(r) == rpc[r] \in {"held", "held_tail", "seen"}

\* The writer is inside `*next_item = value.into()`.
Storing == wpc \in {"store_head", "store_tail"}

TypeOK ==
    /\ write_ptr \in Slots
    /\ read_ptrs \in [Readers -> Slots]
    /\ wait_for_step \in Slots
    /\ written \in 0..MaxWrites
    /\ released \in [Readers -> 0..MaxWrites]

\* C1: for every interleaving of the writer's and the readers' steps, the
\* writer is never inside the store into a slot on which a reader holds a
\* live handle, and the bytes a reader copied out through a handle are those
\* of one completed write: both copies of the counter are equal and neither
\* is the default of a slot never written.
C1_NoTornRead ==
    \A r \in Readers :
        /\ Holding(r) => ~(Storing /\ write_pos = read_pos[r])
        /\ rpc[r] = "seen" =>
              /\ hval[r].head = hval[r].tail
              /\ hval[r].head \in 0..(written - 1)

\* A reader has inspected a handle while the writer is half way through
\* storing into a slot that it uses for the second time.
C1_Witness ==
    \E r \in Readers :
        /\ rpc[r] = "seen" /\ hval[r].head >= 1
        /\ wpc = "store_tail" /\ wval >= N

\* C2: FIFO per reader: the handle a reader obtains after it has released k
\* handles is on slot k mod N and carries the payload k, so a reader that
\* releases every handle obtains 0, 1, 2, ... without a gap, a repetition or
\* a reordering.
C2_Fifo ==
    \A r \in Readers :
        /\ Holding(r) => read_pos[r] = released[r] % N
        /\ rpc[r] = "held_tail" => hval[r].head = released[r]
        /\ rpc[r] = "seen" => hval[r] = Payload(released[r])

\* A reader inspects the payload N, which sits in a slot used a second time.
C2_Witness ==
    \E r \in Readers :
        rpc[r] = "seen" /\ released[r] = N /\ hval[r] = Payload(N)

\* No reader has released a handle.
AllStalled == \A r \in Readers : released[r] = 0

\* C3: capacity is N - 1: while no reader has advanced, a write returns true
\* only as one of the first N - 1, and try_write returns false only once
\* N - 1 writes have succeeded; so the calls return true exactly N - 1
\* times and false from then on.
C3_Capacity ==
    AllStalled =>
        /\ written <= N - 1
        /\ wres = "false" => written = N - 1
        /\ (wpc = "scan" /\ written = N - 1) =>
              \E r \in Readers : read_ptrs[r] = next_write_pos

\* try_write has reported full after N - 1 successes, with every reader stalled.
C3_Witness == AllStalled /\ wres = "false" /\ written = N - 1 /\ wpc = "idle"

\* C4: try_read yields a handle iff the reader's cursor differs from
\* write_ptr when it loads them: a call that returns None finds every
\* successful write already consumed by this reader, and a call that returns
\* a handle finds an unconsumed one and hands out the slot of the cursor.
C4_TryRead ==
    [][\A r \in Readers :
        /\ (rres'[r] = "empty" /\ rres[r] # "empty") =>
              (read_ptrs[r] = write_ptr /\ released[r] = written)
        /\ (rpc[r] = "idle" /\ rpc'[r] = "held") =>
              /\ read_ptrs[r] # write_ptr
              /\ released[r] < written
              /\ read_pos'[r] = read_ptrs[r]
              /\ data[read_ptrs[r]] = Payload(released[r])]_vars

\* A reader has read the one value written, released the handle and then
\* found the ring empty again.
C4_Witness ==
    \E r \in Readers :
        rres[r] = "empty" /\ released[r] = 1 /\ written = 1 /\ rpc[r] = "idle"

\* Reader r has obtained and released every value pushed.
ConsumedAll(r) == released[r] = MaxWrites

\* C5: fan-out completeness: under fair scheduling of the writer (which
\* retries try_write when it reports full) and of every reader, each reader
\* eventually has obtained and released all MaxWrites values, and the handle
\* it inspects after k releases carries the value k, so it obtains each
\* value exactly once.
C5_FanOut ==
    /\ [](\A r \in Readers : rpc[r] = "seen" => hval[r] = Payload(released[r]))
    /\ <>(\A r \in Readers : ConsumedAll(r))

\* Every value was written and every reader has released MaxWrites handles.
C5_Witness == written = MaxWrites /\ \A r \in Readers : ConsumedAll(r)

\* C6: from the end of the writer's scan to its store of write_ptr no read
\* cursor equals the next write position, whatever handles the readers
\* release in between; so a reader whose cursor equals write_ptr has nothing
\* unread: a write never makes unread data look like an empty ring.
C6_NoAdvanceOntoReader ==
    /\ (Storing \/ wpc = "publish") =>
          \A r \in Readers : read_ptrs[r] # next_write_pos
    /\ \A r \in Readers : read_ptrs[r] = write_ptr => released[r] = written

\* The writer is about to store write_ptr on a ring it has gone round once,
\* while a reader has moved its cursor up to the slot just written.
C6_Witness ==
    /\ wpc = "publish" /\ written >= N
    /\ \E r \in Readers : read_ptrs[r] = write_pos /\ released[r] = written

\* C7 as stated: whenever the writer stores into slots[p], write_ptr is p and
\* no reader's cursor is p.
C7_Original ==
    Storing =>
        /\ write_ptr = write_pos
        /\ \A r \in Readers : read_ptrs[r] # write_pos

\* C7, amended: whenever the writer stores into slots[p], write_ptr is p and
\* no reader holds a handle on p; a reader whose cursor is p has consumed
\* every successful write, sees the ring as empty and gets no handle.
C7_SlotExclusive ==
    Storing =>
        /\ write_ptr = write_pos
        /\ \A r \in Readers :
              read_ptrs[r] = write_pos => (~Holding(r) /\ released[r] = written)

\* The writer stores into a slot for the second time while a reader's cursor
\* is on that very slot.
C7_Witness ==
    /\ wpc = "store_tail" /\ wval >= N
    /\ \E r \in Readers : read_ptrs[r] = write_pos

\* Reader r has forgotten its last handle.
Leaked(r) == leaked[r] # NoLeak

\* C8: after a reader has forgotten a handle its cursor is still on that
\* slot, the slot still holds the same contents however many writes were
\* attempted since, and the handle it obtains next (try_read or read_spin) is
\* on the same slot and shows the same contents.
C8_LeakIdempotent ==
    \A r \in Readers :
        Leaked(r) =>
            /\ read_ptrs[r] = leaked[r].slot
            /\ data[leaked[r].slot] = leaked[r].val
            /\ Holding(r) => read_pos[r] = leaked[r].slot
            /\ rpc[r] = "seen" => hval[r] = leaked[r].val

\* A reader inspects the handle it got after forgetting one, and in between
\* the writer has filled the ring and been refused.
C8_Witness ==
    \E r \in Readers :
        /\ Leaked(r) /\ rpc[r] = "seen"
        /\ written = released[r] + N - 1 /\ wres = "false"

\* The number of handles reader r has obtained.
Obtained(r) == released[r] + (IF Holding(r) THEN 1 ELSE 0)

\* The writer's scan is on a cursor that equals the next write position: the
\* frame on offer is about to be refused because of reader r.
RefusedBy(r) ==
    wpc = "scan" /\ scan = r /\ Overlaps(read_ptrs[r], next_write_pos)

\* C9 as stated: a reader that has stopped advancing never costs another
\* reader a frame, that is, no frame is refused because of the cursor of a
\* reader that forgot its handle while another reader has consumed everything
\* written and waits for the next frame.
C9_Original ==
    \A r, q \in Readers :
        ~(r # q /\ Leaked(r) /\ rpc[r] = "idle" /\ RefusedBy(r)
            /\ rpc[q] = "idle" /\ read_ptrs[q] = write_ptr)

\* C9, amended: readers are independent only for the frames already stored.
\* The fullness test scans every cursor, so no reader ever obtains more than
\* N - 1 frames beyond what any other reader has released: once a reader
\* stops advancing, the others obtain at most N - 1 further frames and every
\* later frame is refused.  A refusal is always due to a reader that is
\* N - 1 frames behind.
C9_BoundedLead ==
    \A r, q \in Readers :
        /\ Obtained(q) - released[r] <= N - 1
        /\ RefusedBy(r) => written - released[r] = N - 1

\* One reader forgot its handle and stays on its slot, another has obtained
\* and released N - 1 frames more, finds the ring empty, and the next frame
\* has been refused.
C9_Witness ==
    \E r, q \in Readers :
        /\ Leaked(r) /\ rpc[r] = "idle"
        /\ released[q] = released[r] + N - 1
        /\ rres[q] = "empty" /\ wres = "false"

\* C10 as stated: every frame offered with try_write is stored and advances
\* write_ptr, however far behind the readers are: try_write never reports
\* full.
C10_Original == wres # "false"

\* Every payload that reader r has not released yet is intact in its slot.
QueuedKept(r) ==
    \A k \in released[r]..(written - 1) : data[k % N] = Payload(k)

\* C10, amended: try_write stores the offered frame and advances write_ptr
\* only if no read cursor equals the next write position.  Otherwise the
\* newly captured frame is the one discarded: the step that returns false
\* leaves the ring as it was, and no frame already queued for a reader is
\* ever lost or overwritten.
C10_NewFrameDropped ==
    /\ [](\A r \in Readers : QueuedKept(r))
    /\ [][(wres' = "false" /\ wpc = "scan") =>
            /\ UNCHANGED <<ringVars, written>>
            /\ \E r \in Readers : written - released[r] = N - 1]_vars

\* try_write has refused a frame on a ring that has gone round once, and the
\* N - 1 frames queued for the slowest reader are all still there.
C10_Witness ==
    /\ wres = "false" /\ written >= N
    /\ \E r \in Readers : written - released[r] = N - 1 /\ QueuedKept(r)

\* ---------------------------------------------------------------------------
\* The camera thread of video_routine: the ring's only writer.

\* Most resolution descriptors the GUI sends in one run.
MaxRes == 1

\* Frames queued for a detector when the flag is set in the flush scenario
\* (10 of the 127 a ring of 128 slots holds): fewer than the ring holds, so
\* that one more frame can be written.
QueuedBefore == N - 2

\* async_channel::bounded(1) of the resolution channel.
ResolutionCap == 1

\* The GUI sends a resolution descriptor, at most `most` of them in one run;
\* a full channel makes it wait.
SelectUpTo(most) ==
    /\ nres < most
    /\ Len(resolution_rx) < ResolutionCap
    /\ resolution_rx' = Append(resolution_rx, nres + 1)
    /\ nres' = nres + 1
    /\ UNCHANGED <<cpc, resolution, flush_qr>>
    /\ UNCHANGED <<ringVars, writerVars, readerVars, histVars, strVars>>
    /\ UNCHANGED <<camHist, detVars, detHist>>

SelectResolution == SelectUpTo(MaxRes)

\* The value the camera stores into flush_qr after a resolution change.
FlushSetLost == FALSE

FlushSet == TRUE

\* get_camera(resolution) finds a device, configures it and opens its stream.
CamOpen ==
    /\ cpc = "open"
    /\ cpc' = "poll"
    /\ UNCHANGED <<resolution, resolution_rx, flush_qr, nres>>
    /\ UNCHANGED <<ringVars, writerVars, readerVars, histVars, strVars>>
    /\ UNCHANGED <<camHist, detVars, detHist>>

\* get_camera(resolution) unwraps a failure: no index has a usable device, or
\* set_resolution, set_frame_format or open_stream returns Err.
CamOpenPanic ==
    /\ cpc = "open"
    /\ cpc' = "dead"
    /\ UNCHANGED <<resolution, resolution_rx, flush_qr, nres>>
    /\ UNCHANGED <<ringVars, writerVars, readerVars, histVars, strVars>>
    /\ UNCHANGED <<camHist, detVars, detHist>>

\* try_recv() returns a descriptor: `resolution = Some(new_resolution)`.
CamRecv ==
    /\ cpc = "poll"
    /\ resolution_rx # <<>>
    /\ resolution' = Head(resolution_rx)
    /\ resolution_rx' = Tail(resolution_rx)
    /\ cpc' = "set_flush"
    /\ UNCHANGED <<flush_qr, nres>>
    /\ UNCHANGED <<ringVars, writerVars, readerVars, histVars, strVars>>
    /\ UNCHANGED <<camHist, detVars, detHist>>

\* flush_qr.store(true, Relaxed); continue 'new_camera.
CamSetFlush ==
    /\ cpc = "set_flush"
    /\ flush_qr' = FlushSet
    /\ cpc' = "open"
    /\ s4' = [d \in Readers |->
                /\ dpc[d] = "top" /\ ndec[d] = 0
                /\ released[d] = 0 /\ written = QueuedBefore]
    /\ observed' = FALSE
    /\ answered' = FALSE
    /\ UNCHANGED frame_len
    /\ UNCHANGED <<resolution, resolution_rx, nres>>
    /\ UNCHANGED <<ringVars, writerVars, readerVars, histVars, strVars>>
    /\ UNCHANGED <<detVars, detHist>>

\* try_recv() returns Err: the loop goes on to request a frame.
CamPollEmpty ==
    /\ cpc = "poll"
    /\ resolution_rx = <<>>
    /\ cpc' = "frame"
    /\ UNCHANGED <<resolution, resolution_rx, flush_qr, nres>>
    /\ UNCHANGED <<ringVars, writerVars, readerVars, histVars, strVars>>
    /\ UNCHANGED <<camHist, detVars, detHist>>

\* camera.frame_raw() returns Ok(frame): the frame is in hand, not yet offered.
CamFrame ==
    /\ cpc = "frame"
    /\ written < MaxWrites
    /\ cpc' = "offer"
    /\ wres' = "none"
    /\ UNCHANGED <<resolution, resolution_rx, flush_qr, nres>>
    /\ UNCHANGED <<wpc, wop, write_pos, next_write_pos, scan, wval>>
    /\ UNCHANGED <<ringVars, readerVars, histVars, strVars>>
    /\ UNCHANGED <<camHist, detVars, detHist>>

\* camera.frame_raw() returns Err and is unwrapped.
CamFramePanic ==
    /\ cpc = "frame"
    /\ cpc' = "dead"
    /\ UNCHANGED <<resolution, resolution_rx, flush_qr, nres>>
    /\ UNCHANGED <<ringVars, writerVars, readerVars, histVars, strVars>>
    /\ UNCHANGED <<camHist, detVars, detHist>>

\* The ring operation the camera offers a frame with.
CamOpSpin == "spin"
CamOp == "try"

\* frame_write.try_write(frame.as_ref()) is called.
CamTryWrite ==
    /\ cpc = "offer"
    /\ wres = "none"
    /\ IF CamOp = "try" THEN TryWrite ELSE WriteSpin

\* `let _ = ...`: the result is discarded and the loop starts over.
CamLoop ==
    /\ cpc = "offer"
    /\ wpc = "idle"
    /\ wres # "none"
    /\ cpc' = "poll"
    /\ UNCHANGED <<resolution, resolution_rx, flush_qr, nres>>
    /\ UNCHANGED <<ringVars, writerVars, readerVars, histVars, strVars>>
    /\ UNCHANGED <<camHist, detVars, detHist>>

\* Every step of the camera thread while no resolution change is requested,
\* the ring writer's steps included.
CamStep ==
    \/ CamOpen \/ CamOpenPanic
    \/ CamPollEmpty
    \/ CamFrame \/ CamFramePanic
    \/ CamTryWrite \/ ScanPass \/ ScanFull \/ WriteCommit
    \/ CamLoop

\* A reader of the camera scenario: it takes frames without waiting and
\* releases them, or stops doing so for good.
CamReader(r) == TryRead(r) \/ DropHandle(r)

NextCam == CamStep \/ \E r \in Readers : CamReader(r)

\* The camera thread is scheduled fairly; the readers are not, so any of
\* them may stall for ever.
CamSpec == Init /\ [][NextCam]_vars /\ WF_vars(CamStep)

\* C11: the camera never waits on the ring: every try_write it starts returns
\* after the writer's own steps, whatever the readers do or fail to do, and
\* the camera is back at the top of its loop.
C11_CameraNeverWaits == (cpc = "offer") ~> (cpc = "poll")

\* A try_write refused because of a reader that never released anything has
\* returned and the camera has gone round its loop again.
C11_Witness ==
    /\ cpc = "frame" /\ wres = "false"
    /\ \E r \in Readers : released[r] = 0 /\ rpc[r] = "idle"

\* ---------------------------------------------------------------------------
\* read_spin against a writer, on either build: in its wait loop a reader
\* waits on the futex word (Linux) or pauses and yields (elsewhere).
\* The readers take their handles with read_spin and release them without
\* looking at the frame.
WakeReader(r) ==
    \/ ReadSpin(r) \/ SpinLoad(r) \/ FutexWait(r) \/ PauseYield(r)
    \/ SpinAssert(r) \/ DropHandle(r)

NextWake == FanWriter \/ \E r \in Readers : WakeReader(r) \/ SpuriousWake(r)

WakeSpec ==
    /\ Init /\ [][NextWake]_vars
    /\ WF_vars(FanWriter)
    /\ \A r \in Readers : WF_vars(WakeReader(r))

\* Reader r is inside read_spin and has no handle yet.
InReadSpin(r) == rpc[r] \in {"rs_load", "rs_wait", "asleep", "rs_assert"}

\* A write reader r has not consumed is published.
Pending(r) == written > released[r]

\* C12: no lost wake-up: no reader stays inside read_spin for ever while a
\* write it has not consumed is published, in any interleaving of the
\* reader's check and wait with the writer's publish, store and wake; and
\* read_spin is only ever left with a handle, never by its failed assertion.
C12_NoLostWakeup ==
    /\ \A r \in Readers : []<>~(InReadSpin(r) /\ Pending(r))
    /\ [][\A r \in Readers :
             (InReadSpin(r) /\ ~InReadSpin(r)') => Holding(r)']_vars
    /\ [](\A r \in Readers : rpc[r] # "panicked")

\* A reader went to sleep on the futex word, and a write it has not consumed
\* is published with the writer's wake still to come.
C12_Witness ==
    \E r \in Readers :
        /\ rpc[r] = "asleep" /\ Pending(r)
        /\ wpc \in {"futex_store", "futex_wake"}

\* ---------------------------------------------------------------------------
\* C13: one writer per cursor.  write_idx changes only in the publishing step
\* of a successful write, from w to (w + 1) mod N, with every read cursor and
\* the slots left alone; read_idx[r] changes only when reader r releases a
\* handle, by one mod N and once per released handle, with the write cursor,
\* the slots and the other readers' cursors left alone; every cursor stays
\* within 0 .. N-1.
C13_CursorOwners ==
    /\ [][/\ write_ptr' # write_ptr =>
                /\ wpc = "publish"
                /\ write_ptr' = (write_ptr + 1) % N
                /\ written' = written + 1
                /\ UNCHANGED <<read_ptrs, data, released>>
          /\ written' # written => write_ptr' # write_ptr
          /\ \A r \in Readers :
                /\ read_ptrs'[r] # read_ptrs[r] =>
                      /\ Holding(r) /\ ~Holding(r)'
                      /\ read_ptrs'[r] = (read_ptrs[r] + 1) % N
                      /\ released'[r] = released[r] + 1
                      /\ UNCHANGED <<write_ptr, data, written>>
                      /\ \A q \in Readers \ {r} :
                            /\ read_ptrs'[q] = read_ptrs[q]
                            /\ released'[q] = released[q]
                /\ released'[r] # released[r] => read_ptrs'[r] # read_ptrs[r]
         ]_vars
    /\ [](/\ write_ptr \in Slots
          /\ write_ptr = written % N
          /\ \A r \in Readers :
                read_ptrs[r] \in Slots /\ read_ptrs[r] = released[r] % N)

\* The write cursor and a read cursor have both gone round the ring.
C13_Witness ==
    /\ written > N /\ write_ptr = written % N
    /\ \E r \in Readers : released[r] = N /\ read_ptrs[r] = 0

\* ---------------------------------------------------------------------------
\* The analysis threads of video_routine.  A text is a sequence of
\* characters; a scene is the sequence of texts the decoder finds in a frame.

\* QR_BUFFER_SIZE, the capacity of the qr_reads channel (128 in the program).
QR_BUFFER_SIZE == 1

IsSpace(c) == c = " "

RECURSIVE TrimStart(_)
TrimStart(t) == IF t # <<>> /\ IsSpace(Head(t)) THEN TrimStart(Tail(t)) ELSE t

RECURSIVE TrimEnd(_)
TrimEnd(t) ==
    IF t # <<>> /\ IsSpace(t[Len(t)])
      THEN TrimEnd(SubSeq(t, 1, Len(t) - 1))
      ELSE t

\* str::trim
Trim(t) == TrimEnd(TrimStart(t))

\* !text.trim().is_empty()
NonBlank(text) == Trim(text) # <<>>

\* decoded_info.iter().any(|text| !text.trim().is_empty())
AnyNonBlank(info) == \E i \in 1..Len(info) : NonBlank(info[i])

CodeX == <<"X">>
CodePadded == <<" ", "X", " ">>
CodeBlank == <<" ">>

\* What may be in front of the camera during a run.
Scenes == {NoCode, <<CodeX>>, <<CodePadded>>, <<CodeBlank>>, <<CodeBlank, CodeX>>}

\* `while frame_reader.try_read().is_some() {}` ends when try_read returns None.
DrainEndsAtOnce(res) == TRUE
DrainEnds(res) == res = "empty"

\* flush_qr.load(Relaxed) at the top of the loop.
DetLoadFlush(d) ==
    /\ dpc[d] = "top"
    /\ IF flush_qr
         THEN /\ dpc' = [dpc EXCEPT ![d] = "clear"]
              /\ seen' = [seen EXCEPT ![d] = @ + 1]
              /\ mark' = [mark EXCEPT ![d] = written]
              /\ observed' = TRUE
         ELSE /\ dpc' = [dpc EXCEPT ![d] = "spin"]
              /\ UNCHANGED <<seen, mark, observed>>
    /\ UNCHANGED <<scene, decoded_info, todo, qr_reads, ndec, lastdec, nsent>>
    /\ UNCHANGED <<s4, answered, frame_len>>
    /\ UNCHANGED <<ringVars, writerVars, readerVars, histVars, camVars, strVars>>

\* flush_qr.store(false, Relaxed)
DetClearFlush(d) ==
    /\ dpc[d] = "clear"
    /\ flush_qr' = FALSE
    /\ dpc' = [dpc EXCEPT ![d] = "drain"]
    /\ answered' = TRUE
    /\ UNCHANGED <<cpc, resolution, resolution_rx, nres>>
    /\ UNCHANGED <<scene, decoded_info, todo, qr_reads>>
    /\ UNCHANGED <<s4, observed, frame_len>>
    /\ UNCHANGED <<ringVars, writerVars, readerVars, histVars, detHist, strVars>>

\* A drain loop calls try_read.
DetDrainTry(d) ==
    /\ dpc[d] \in {"drain", "dedup"}
    /\ ~DrainEnds(rres[d])
    /\ TryRead(d)

\* drop(next_frame) before the drain after a detection, and the drop of the
\* handle each try_read of a drain loop returned.
DetDrainDrop(d) ==
    /\ dpc[d] \in {"drain", "dedup"}
    /\ DropHandle(d)

\* The drain loop ends: read_spin follows a flush, the next iteration a
\* detection.
DetDrainDone(d) ==
    /\ dpc[d] \in {"drain", "dedup"}
    /\ rpc[d] = "idle"
    /\ DrainEnds(rres[d])
    /\ dpc' = [dpc EXCEPT ![d] = IF dpc[d] = "drain" THEN "spin" ELSE "top"]
    /\ rres' = [rres EXCEPT ![d] = "none"]
    /\ UNCHANGED <<rpc, read_pos, write_ptr_value, hval>>
    /\ UNCHANGED <<scene, decoded_info, todo, qr_reads>>
    /\ UNCHANGED <<ringVars, writerVars, histVars, camVars, camHist, detHist, strVars>>

\* let next_frame = frame_reader.read_spin();
DetReadSpin(d) == dpc[d] = "spin" /\ ReadSpin(d)

DetWait(d) ==
    /\ dpc[d] = "spin"
    /\ SpinLoad(d) \/ FutexWait(d) \/ SpinAssert(d)

\* imdecode reads the frame through the handle (in one step: no store into
\* the slot is under way while the handle is held); detect_multi and, on a
\* detection, decode_multi_def into decoded_info.
DetDecode(d) ==
    /\ dpc[d] = "spin"
    /\ rpc[d] = "held"
    /\ ndec' = [ndec EXCEPT ![d] = @ + 1]
    /\ lastdec' = [lastdec EXCEPT ![d] = data[read_pos[d]].head]
    /\ IF scene # NoCode
         THEN /\ decoded_info' = [decoded_info EXCEPT ![d] = scene]
              /\ todo' = [todo EXCEPT ![d] = scene]
              /\ dpc' = [dpc EXCEPT ![d] = "send"]
         ELSE /\ dpc' = [dpc EXCEPT ![d] = "release"]
              /\ UNCHANGED <<decoded_info, todo>>
    /\ UNCHANGED <<scene, qr_reads, seen, mark, nsent>>
    /\ UNCHANGED <<ringVars, writerVars, readerVars, histVars, camVars, camHist, strVars>>

\* One round of `for text in &decoded_info`: a blank text is skipped, any
\* other is passed as it is to try_send, whose result is unwrapped.
DetSend(d) ==
    /\ dpc[d] = "send"
    /\ todo[d] # <<>>
    /\ LET text == Head(todo[d]) IN
         IF NonBlank(text)
           THEN IF Len(qr_reads) < QR_BUFFER_SIZE
                  THEN /\ qr_reads' = Append(qr_reads, text)
                       /\ nsent' = [nsent EXCEPT ![d] = @ + 1]
                       /\ todo' = [todo EXCEPT ![d] = Tail(@)]
                       /\ UNCHANGED dpc
                  ELSE /\ dpc' = [dpc EXCEPT ![d] = "panic"]
                       /\ UNCHANGED <<qr_reads, nsent, todo>>
           ELSE /\ todo' = [todo EXCEPT ![d] = Tail(@)]
                /\ UNCHANGED <<qr_reads, nsent, dpc>>
    /\ UNCHANGED <<scene, decoded_info, seen, mark, ndec, lastdec>>
    /\ UNCHANGED <<ringVars, writerVars, readerVars, histVars, camVars, camHist, strVars>>

\* The loop over decoded_info is over.
DetSent(d) ==
    /\ dpc[d] = "send"
    /\ todo[d] = <<>>
    /\ dpc' = [dpc EXCEPT ![d] =
                  IF AnyNonBlank(decoded_info[d]) THEN "dedup" ELSE "release"]
    /\ mark' = [mark EXCEPT ![d] =
                  IF AnyNonBlank(decoded_info[d]) THEN written ELSE @]
    /\ UNCHANGED <<scene, decoded_info, todo, qr_reads, seen, ndec, lastdec, nsent>>
    /\ UNCHANGED <<ringVars, writerVars, readerVars, histVars, camVars, camHist, strVars>>

\* next_frame goes out of scope at the end of the loop body.
DetRelease(d) == dpc[d] = "release" /\ DropHandle(d)

DetNext(d) ==
    /\ dpc[d] = "release"
    /\ rpc[d] = "idle"
    /\ dpc' = [dpc EXCEPT ![d] = "top"]
    /\ UNCHANGED <<scene, decoded_info, todo, qr_reads>>
    /\ UNCHANGED <<ringVars, writerVars, readerVars, histVars, camVars, camHist, detHist, strVars>>

\* The panic of the unwrap unwinds the thread, which drops next_frame.
DetUnwind(d) == dpc[d] = "panic" /\ DropHandle(d)

\* The analysis thread is gone.
DetDead(d) == dpc[d] = "panic" /\ rpc[d] = "idle"

\* qr_reads_rx.recv() of the GUI's consumer.
QrRecv ==
    /\ qr_reads # <<>>
    /\ qr_reads' = Tail(qr_reads)
    /\ UNCHANGED <<scene, dpc, decoded_info, todo>>
    /\ UNCHANGED <<ringVars, writerVars, readerVars, histVars, camVars, camHist, detHist, strVars>>

\* ---------------------------------------------------------------------------
\* Flush on a resolution change: a camera whose device works, the GUI's
\* resolution choices, and every reader of the ring an analysis thread in
\* front of which there is no QR code.
FlushCam ==
    \/ CamOpen \/ CamRecv \/ CamSetFlush \/ CamPollEmpty
    \/ CamFrame \/ CamTryWrite \/ ScanPass \/ ScanFull \/ WriteCommit
    \/ CamLoop

FlushDet(d) ==
    \/ DetLoadFlush(d) \/ DetClearFlush(d)
    \/ DetDrainTry(d) \/ DetDrainDrop(d) \/ DetDrainDone(d)
    \/ DetReadSpin(d) \/ DetWait(d) \/ SpuriousWake(d)
    \/ DetDecode(d)
    \/ DetRelease(d) \/ DetNext(d)

NextFlush == FlushCam \/ SelectResolution \/ \E d \in Readers : FlushDet(d)

FlushSpec == Init /\ [][NextFlush]_vars

\* Times the camera has raised flush_qr.
NFlush == nres - Len(resolution_rx) - (IF cpc = "set_flush" THEN 1 ELSE 0)

\* C14: each detector observes each raising of the flush flag: while some
\* detector has yet to load the flag as set, the flag stays set.
C14_Original == (\E d \in Readers : seen[d] < NFlush) => flush_qr

\* Detector d has taken every frame written and waits in read_spin.
CaughtUp(d) ==
    /\ dpc[d] = "spin" /\ rpc[d] \in {"rs_wait", "asleep"}
    /\ released[d] = written

\* C15 as stated: QueuedBefore frames are queued for a detector at the top of
\* its loop, the flag is set, one more frame is written; once the detector
\* has caught up it has decoded exactly one frame, the last.
C15_Original ==
    \A d \in Readers :
        (s4[d] /\ written = QueuedBefore + 1 /\ CaughtUp(d))
            => (ndec[d] = 1 /\ lastdec[d] = QueuedBefore)

\* C15: a detector that loads the flush flag as set decodes afterwards no
\* frame published before it did so; in the flush scenario such a detector
\* decodes none of the frames queued before the flag was set and at most the
\* frames written afterwards, possibly none of them.
C15_FlushSkipsQueued ==
    /\ [][\A d \in Readers :
             (ndec'[d] # ndec[d] /\ seen[d] > 0) => lastdec'[d] >= mark[d]]_vars
    /\ [](\A d \in Readers :
             (s4[d] /\ seen[d] > 0) =>
                /\ lastdec[d] = NoPos \/ lastdec[d] >= QueuedBefore
                /\ ndec[d] <= written - QueuedBefore)

\* The flush scenario ran for a detector that saw the flag, and it decoded
\* the frame written after the flag was set.
C15_Witness ==
    \E d \in Readers :
        /\ s4[d] /\ seen[d] > 0 /\ CaughtUp(d)
        /\ written = QueuedBefore + 1
        /\ ndec[d] = 1 /\ lastdec[d] = QueuedBefore

\* ---------------------------------------------------------------------------
\* Detection: a camera that keeps offering frames of one scene, every reader
\* of the ring an analysis thread, and the GUI's consumer of qr_reads, which
\* may be slow.  No resolution change happens.
InitQr == \E sc \in Scenes : InitWith(sc)

QrDet(d) ==
    \/ DetLoadFlush(d)
    \/ DetReadSpin(d) \/ DetWait(d) \/ SpuriousWake(d)
    \/ DetDecode(d) \/ DetSend(d) \/ DetSent(d)
    \/ DetDrainTry(d) \/ DetDrainDrop(d) \/ DetDrainDone(d)
    \/ DetRelease(d) \/ DetNext(d)
    \/ DetUnwind(d)

NextQr == FanWriter \/ QrRecv \/ \E d \in Readers : QrDet(d)

QrSpec == InitQr /\ [][NextQr]_vars

C17_Original == \A d \in Readers : dpc[d] # "panic"

\* C18: every string on qr_reads is non-empty and trimmed.
C18_Original ==
    \A i \in 1..Len(qr_reads) :
        qr_reads[i] # <<>> /\ Trim(qr_reads[i]) = qr_reads[i]

\* C19: when opening the device or acquiring a frame fails, the camera
\* thread stays alive and goes back to opening a device.
C19_Original == cpc # "dead"

\* ---------------------------------------------------------------------------
\* The stream writer thread of video_routine: the first reader of the ring.

\* read_ptrs.split_first_mut(): frame_streaming
Streamer == 1

\* Most connections accepted in one run.
MaxClients == 2

\* TcpListener::bind(VIDEO_SOCKET)
StrBind ==
    /\ spc = "bind"
    /\ spc' = "accept"
    /\ UNCHANGED <<clients, got>>
    /\ UNCHANGED <<ringVars, writerVars, readerVars, histVars>>
    /\ UNCHANGED <<camVars, camHist, detVars, detHist>>
    /\ UNCHANGED pktVars

\* listener.accept(): a viewer connects.
StrAccept ==
    /\ spc = "accept"
    /\ clients < MaxClients
    /\ clients' = clients + 1
    /\ got' = <<>>
    /\ spc' = "header"
    /\ UNCHANGED <<ringVars, writerVars, readerVars, histVars>>
    /\ UNCHANGED <<camVars, camHist, detVars, detHist>>
    /\ UNCHANGED pktVars

\* stream.write_all(status line and headers) returns Ok.
StrHeader ==
    /\ spc = "header"
    /\ got' = Append(got, "headers")
    /\ spc' = "spin"
    /\ UNCHANGED clients
    /\ UNCHANGED <<ringVars, writerVars, readerVars, histVars>>
    /\ UNCHANGED <<camVars, camHist, detVars, detHist>>
    /\ UNCHANGED pktVars

\* stream.write_all(status line and headers) returns Err and is unwrapped.
StrHeaderPanic ==
    /\ spc = "header"
    /\ spc' = "dead"
    /\ UNCHANGED <<clients, got>>
    /\ UNCHANGED <<ringVars, writerVars, readerVars, histVars>>
    /\ UNCHANGED <<camVars, camHist, detVars, detHist>>
    /\ UNCHANGED pktVars

\* let frame = frame_streaming.read_spin();
StrReadSpin == spc = "spin" /\ ReadSpin(Streamer)

StrWait ==
    /\ spc = "spin"
    /\ SpinLoad(Streamer) \/ FutexWait(Streamer) \/ SpinAssert(Streamer)

\* One item of what is written to a client.
Item(kind, v) == [kind |-> kind, v |-> v]

\* "--frame\r\nContent-Type: image/jpeg\r\nContent-Length: {}\r\n\r\n"
FrameHeader(len) == <<Item("preamble", len)>>

\* b"\r\n"
CRLF == <<Item("crlf", 0)>>

\* The bytes of frame k: frame_len[k] bytes that carry the frame's number.
FrameBytes(k) == [i \in 1..frame_len[k] |-> Item("byte", k)]

\* The packet is built from the frame behind the handle (read in one step:
\* no store into the slot is under way while the handle is held): a new
\* header if the frame length changed, then the frame and CRLF appended.
StrPacket ==
    /\ spc = "spin"
    /\ rpc[Streamer] = "held"
    /\ LET frame == FrameBytes(data[read_pos[Streamer]].head) IN
         IF Len(frame) # cur_frame_len
           THEN /\ cur_frame_len' = Len(frame)
                /\ frame_header_len' = Len(FrameHeader(Len(frame)))
                /\ packet' = FrameHeader(Len(frame)) \o frame \o CRLF
           ELSE /\ packet' = packet \o frame \o CRLF
                /\ UNCHANGED <<cur_frame_len, frame_header_len>>
    /\ spc' = "write"
    /\ UNCHANGED <<clients, got>>
    /\ UNCHANGED <<ringVars, writerVars, readerVars, histVars>>
    /\ UNCHANGED <<camVars, camHist, detVars, detHist>>

\* stream.write_all(&packet) returns Ok; packet.truncate(frame_header_len).
StrWrite ==
    /\ spc = "write"
    /\ got' = IF got = <<"headers">> THEN Append(got, "frame") ELSE got
    /\ packet' = SubSeq(packet, 1, frame_header_len)
    /\ spc' = "release"
    /\ UNCHANGED <<clients, frame_header_len, cur_frame_len>>
    /\ UNCHANGED <<ringVars, writerVars, readerVars, histVars>>
    /\ UNCHANGED <<camVars, camHist, detVars, detHist>>

\* stream.write_all(&packet) returns Err: continue 'new_stream.
StrWriteErr ==
    /\ spc = "write"
    /\ spc' = "reconnect"
    /\ UNCHANGED <<clients, got>>
    /\ UNCHANGED <<ringVars, writerVars, readerVars, histVars>>
    /\ UNCHANGED <<camVars, camHist, detVars, detHist>>
    /\ UNCHANGED pktVars

\* frame goes out of scope at the end of the loop body or at the continue.
StrRelease ==
    /\ spc \in {"release", "reconnect"}
    /\ DropHandle(Streamer)

\* The next round of the frame loop, or of 'new_stream.
StrNext ==
    /\ spc \in {"release", "reconnect"}
    /\ rpc[Streamer] = "idle"
    /\ spc' = IF spc = "release" THEN "spin" ELSE "bind"
    /\ UNCHANGED <<clients, got>>
    /\ UNCHANGED <<ringVars, writerVars, readerVars, histVars>>
    /\ UNCHANGED <<camVars, camHist, detVars, detHist>>
    /\ UNCHANGED pktVars

StrStep ==
    \/ StrBind \/ StrAccept \/ StrHeader \/ StrHeaderPanic
    \/ StrReadSpin \/ StrWait \/ SpuriousWake(Streamer)
    \/ StrPacket \/ StrWrite \/ StrWriteErr
    \/ StrRelease \/ StrNext

\* The streamer, a camera that keeps offering frames, and the other readers
\* taking frames or not.
NextStream ==
    StrStep \/ FanWriter \/ \E r \in Readers \ {Streamer} : CamReader(r)

StreamSpec == Init /\ [][NextStream]_vars

\* C20: a TCP write error while the status line and headers or a frame
\* packet are written sends the streamer back to accepting a connection:
\* the stream writer thread never ends.
C20_Original == spc # "dead"

\* ---------------------------------------------------------------------------
\* The pipeline when the listener may fail to bind.

\* TcpListener::bind(VIDEO_SOCKET) returns Err and is unwrapped.
StrBindPanic ==
    /\ spc = "bind"
    /\ spc' = "dead"
    /\ UNCHANGED <<clients, got>>
    /\ UNCHANGED <<ringVars, writerVars, readerVars, histVars>>
    /\ UNCHANGED <<camVars, camHist, detVars, detHist>>
    /\ UNCHANGED pktVars

NextStart == NextStream \/ StrBindPanic

StartSpec == Init /\ [][NextStart]_vars

\* The stream writer thread ended before it accepted any connection.
BindFailedAtStartup == spc = "dead" /\ clients = 0

\* C21: a failure to bind the listener at startup ends the whole pipeline:
\* from then on the camera writes nothing and no reader takes a frame.
C21_Original ==
    [][BindFailedAtStartup => UNCHANGED <<ringVars, writerVars, readerVars>>]_vars

\* ---------------------------------------------------------------------------
\* The streamer serving frames of any lengths.

\* Longest frame, in bytes.
MaxLen == 1

InitPacket == \E fl \in [Frames -> 0..MaxLen] : InitOf(NoCode, fl)

PacketSpec == InitPacket /\ [][NextStream]_vars

\* The frame behind the streamer's handle.
StreamedFrame == data[read_pos[Streamer]].head

\* C22: every packet handed to write_all is the preamble with the length of
\* one frame, the bytes of that frame, and CRLF.
C22_Original ==
    spc = "write" =>
        packet = FrameHeader(frame_len[StreamedFrame])
                    \o FrameBytes(StreamedFrame) \o CRLF

\* ---------------------------------------------------------------------------
\* write_spin against readers that take every frame with read_spin and
\* release it; every thread keeps being scheduled.
SpinWriter == WriteSpin \/ ScanPass \/ ScanFull \/ SpinYield \/ WriteCommit

NextSpin == SpinWriter \/ \E r \in Readers : WakeReader(r) \/ SpuriousWake(r)

SpinSpec ==
    /\ Init /\ [][NextSpin]_vars
    /\ WF_vars(SpinWriter)
    /\ \A r \in Readers : WF_vars(WakeReader(r))

\* The writer is inside a call of write_spin.
InWriteSpin == wop = "spin"

\* C23: a call of write_spin changes nothing while it finds the ring full,
\* returns only after it has stored its value once and advanced write_idx
\* once, and returns eventually when the readers keep releasing handles.
C23_WriteSpin ==
    /\ [][/\ (InWriteSpin /\ wpc \in {"scan", "yield"}
                 /\ writerVars' # writerVars) =>
                UNCHANGED <<ringVars, written>>
          /\ (InWriteSpin /\ wpc' = "idle") =>
                /\ wres' = "true"
                /\ written = wval + 1
                /\ write_ptr = (write_pos + 1) % N
                /\ data[write_pos] = Payload(wval)]_vars
    /\ []<>(~InWriteSpin)

\* write_spin has found the ring full and retries; nothing has changed.
C23_Witness ==
    /\ InWriteSpin /\ wpc = "yield"
    /\ written = N - 1 /\ write_ptr = N - 1
    /\ \E r \in Readers : released[r] = 0

\* ---------------------------------------------------------------------------
\* The flush flag under repeated resolution changes: the GUI changes the
\* resolution more than once, the camera raises the flag each time, and every
\* reader of the ring is an analysis thread in front of which there is no QR
\* code.  Few frames are written, so that the ring never fills.

\* Most resolution descriptors the GUI sends in this scenario.
MaxSets == MaxRes + 1

\* Most frames the camera delivers in this scenario.
FlagFrames == 1

SelectAgain == SelectUpTo(MaxSets)

FlagFrame == written < FlagFrames /\ CamFrame

FlagCam ==
    \/ CamOpen \/ CamRecv \/ CamSetFlush \/ CamPollEmpty
    \/ FlagFrame \/ CamTryWrite \/ ScanPass \/ WriteCommit
    \/ CamLoop

NextFlag == FlagCam \/ SelectAgain \/ \E d \in Readers : FlushDet(d)

FlagSpec == Init /\ [][NextFlag]_vars

\* C24 as stated: the detectors' load and store of false never lose a set of
\* the flag by the camera: as long as no load has seen the camera's last set,
\* the flag is still set.
C24_Original == ~observed => flush_qr

\* C24: a set of the flag is never cleared without a drain after it.  The
\* flag goes from set to clear only by a detector's store of false, which
\* takes that detector into its drain; as long as no store of false has
\* followed the camera's last set the flag is still set.  (A set between a
\* detector's load and its store of false is erased by the store without any
\* load having seen it.)
C24_SetNeverUnanswered ==
    /\ [](~answered => flush_qr)
    /\ [][flush_qr /\ ~flush_qr' =>
            \E d \in Readers : dpc[d] = "clear" /\ dpc'[d] = "drain"]_vars

\* The camera has set the flag a second time between a detector's load and
\* its store of false, and the store has erased it: no load has seen the
\* second set, and that detector drains.
C24_Witness ==
    /\ NFlush = 2 /\ ~flush_qr /\ ~observed /\ answered
    /\ \E d \in Readers : dpc[d] = "drain"

\* The same scenario with a camera and detectors that keep running.
FlagLiveSpec ==
    /\ FlagSpec
    /\ WF_vars(FlagCam)
    /\ \A d \in Readers : WF_vars(FlushDet(d))

\* C28: every set of the flush flag is answered by a drain that starts after
\* it.  A detector that passes the top of its loop while the camera's last
\* set is unanswered loads the flag as set; from there its next steps are the
\* store of false and a drain, which ends only when try_read returns empty;
\* and once a detector is at the top of its loop a set does not stay
\* unanswered.
C28_SetAnswered ==
    /\ [][\A d \in Readers :
            /\ (dpc[d] = "top" /\ dpc'[d] # "top" /\ ~answered)
                    => dpc'[d] = "clear"
            /\ (dpc[d] = "clear" /\ dpc'[d] # "clear")
                    => (dpc'[d] = "drain" /\ answered' /\ ~flush_qr')
            /\ (dpc[d] = "drain" /\ dpc'[d] # "drain")
                    => rres[d] = "empty"]_vars
    /\ (~answered /\ \E d \in Readers : dpc[d] = "top") ~> answered

\* A detector that was busy with a frame when the camera set the flag has
\* come round to the top of its loop, found the flag set, cleared it and now
\* drains.
C28_Witness ==
    \E d \in Readers :
        /\ dpc[d] = "drain" /\ ndec[d] > 0 /\ mark[d] > 0
        /\ answered /\ seen[d] = 1

\* ---------------------------------------------------------------------------
\* The ring's own guarantees, for every interleaving of one writer and the
\* readers (Spec).

\* Frames written that reader r has not released yet.
Lead(r) == written - released[r]

\* C25: the assertion in read_spin never fails.  Between the load that ended
\* the wait loop and the acquire load of the assertion the reader's cursor
\* has not moved, between one and N - 1 frames are unreleased by this
\* reader, and write_idx differs from the cursor, however many writes are
\* attempted in between.
C25_AssertHolds ==
    \A r \in Readers :
        /\ rpc[r] # "panicked"
        /\ rpc[r] = "rs_assert" =>
              /\ read_ptrs[r] = read_pos[r]
              /\ write_ptr # read_pos[r]
              /\ Lead(r) \in 1..(N - 1)

\* A reader stands between the end of its wait loop and the assertion while
\* the writer has gone once round the ring, up to the slot before the
\* reader's cursor, and has been refused there.
C25_Witness ==
    \E r \in Readers :
        /\ rpc[r] = "rs_assert" /\ written >= N
        /\ Lead(r) = N - 1 /\ wres = "false"

\* C26: no lapping.  For every reader the number of successful writes minus
\* the number of handles it has released lies in 0..N-1 and equals
\* (write_idx - read_idx[r]) mod N; so once a reader stops releasing, the
\* writer succeeds at most N - 1 more times.
C26_NoLapping ==
    \A r \in Readers :
        /\ Lead(r) \in 0..(N - 1)
        /\ Lead(r) = (write_ptr + N - read_ptrs[r]) % N

\* The writer is N - 1 frames ahead of a reader on a ring it has gone round:
\* write_idx is numerically below the reader's cursor.
C26_Witness ==
    \E r \in Readers :
        /\ Lead(r) = N - 1 /\ released[r] > 0
        /\ write_ptr < read_ptrs[r]

\* The writer takes a step.
WriterMoves == writerVars' # writerVars

\* Reader r takes a step.
ReaderMoves(r) ==
    <<rpc[r], read_pos[r], rres[r], hval[r], read_ptrs[r]>>' #
        <<rpc[r], read_pos[r], rres[r], hval[r], read_ptrs[r]>>

\* C27: failed operations have no side effects.  Every step of a try_write
\* call that returns false leaves write_idx, the slots, the wake word and the
\* read cursors unchanged and wakes no reader; a try_read that returns empty
\* leaves the ring and the writer unchanged; obtaining a handle moves no
\* cursor, and the cursor of a reader that holds a handle stays on the
\* handle's slot until the release moves it on by one.
C27_FailedOpsPure ==
    [][/\ (WriterMoves /\ wop' # "spin" /\ wpc' \in {"scan", "idle"}
              /\ wres' # "true") =>
                UNCHANGED <<ringVars, written, rpc, read_pos, rres>>
       /\ \A r \in Readers :
            /\ (ReaderMoves(r) /\ rres'[r] = "empty") =>
                  UNCHANGED <<ringVars, writerVars, histVars>>
            /\ (~Holding(r) /\ Holding(r)') =>
                  /\ UNCHANGED <<read_ptrs, write_ptr>>
                  /\ read_pos'[r] = read_ptrs[r]
            /\ (Holding(r) /\ read_ptrs'[r] # read_ptrs[r]) =>
                  /\ ~Holding(r)'
                  /\ read_ptrs'[r] = (read_pos[r] + 1) % N]_vars

\* try_write has returned false because of a reader that holds a handle
\* N - 1 frames back, and another reader's try_read has returned empty.
C27_Witness ==
    \E r, q \in Readers :
        /\ wres = "false" /\ wpc = "idle"
        /\ Holding(r) /\ Lead(r) = N - 1
        /\ rres[q] = "empty" /\ rpc[q] = "idle"
====
